---- MODULE Spec2Model ----
(***************************************************************************)
(* Verification model of the yahtzee scoring engine: validators, scoring   *)
(* rules, bonus rules, the scoresheet, players and the game.               *)
(*                                                                         *)
(* Python objects live in heaps keyed by object id (oid); a reference is   *)
(* an oid.  Optional[int] is modelled as a sequence: None is the empty     *)
(* sequence, a present value v is the one-element sequence <<v>>.          *)
(***************************************************************************)
EXTENDS Integers, Sequences, FiniteSets, TLC

VARIABLES
    rule_obj,   \* heap of ScoringRule objects: oid -> fields
    bonus_obj,  \* heap of BonusRule objects: oid -> fields
    die_obj,    \* heap of Die objects: oid -> fields
    sheets,     \* Scoresheet objects, in order of construction
    players,    \* Player objects of the Game
    last        \* the last call made and how it ended

vars == <<rule_obj, bonus_obj, die_obj, sheets, players, last>>

----------------------------------------------------------------------------
(* Bounds of the model *)

\* number of sides of the dice handed to the rules
Sides == 3
\* longest dice sequence handed to a single rule
MaxDice == 3
\* largest counter value a bonus rule is driven to
MaxCounter == 4
\* largest amount of a single increment
MaxAmt == 2

----------------------------------------------------------------------------
(* Optional values and small helpers *)

None == << >>
Some(v) == << v >>
IsNone(x) == x = None
Val(x) == x[1]

NoError == "none"

Range(s) == { s[i] : i \in DOMAIN s }

RECURSIVE SumSeq(_)
SumSeq(s) == IF s = << >> THEN 0 ELSE Head(s) + SumSeq(Tail(s))

MaxOf(S) == CHOOSE m \in S : \A x \in S : x <= m
MinOf(S) == CHOOSE m \in S : \A x \in S : m <= x

SeqsUpTo(S, n) == UNION { [1..k -> S] : k \in 0..n }

\* every Sequence[Optional[Die]] of the bounds, each die given by its face
OptFaces == { None } \cup { Some(f) : f \in 1..Sides }
DiceLists == SeqsUpTo(OptFaces, MaxDice)

----------------------------------------------------------------------------
(* rules.py: constants *)

SCORE_FULL_HOUSE == 25
SCORE_SMALL_STRAIGHT == 30
SCORE_LARGE_STRAIGHT == 40
SCORE_YAHTZEE == 50
BONUS_UPPER_SCORE == 35
BONUS_UPPER_THRESHOLD == 63
BONUS_YAHTZEE_SCORE == 100
BONUS_LOWER_SCORE == BONUS_YAHTZEE_SCORE

UPPER == "upper"
LOWER == "lower"
Section == { UPPER, LOWER }

----------------------------------------------------------------------------
(* validators.py *)

\* [die.showing_face for die in dice if die]
ShowingFaces(dice) ==
    LET present == SelectSeq(dice, LAMBDA d : ~IsNone(d))
    IN  [i \in DOMAIN present |-> Val(present[i])]

\* collections.Counter(values): value -> number of occurrences
Counter(values) ==
    [v \in Range(values) |-> Cardinality({ i \in DOMAIN values : values[i] = v })]

find_matching_dice(dice, face_value) ==
    SelectSeq(dice, LAMBDA d : ~IsNone(d) /\ Val(d) = face_value)

\* the faces grouped as they lie, without sorting: only a run of n equal
\* faces next to each other counts
validate_nofkind_adjacent(dice, n) ==
    LET faces == ShowingFaces(dice)
    IN  \E i \in DOMAIN faces :
            /\ i = 1 \/ faces[i - 1] # faces[i]
            /\ i + n - 1 <= Len(faces)
            /\ \A j \in i..(i + n - 1) : faces[j] = faces[i]
            /\ i + n > Len(faces) \/ faces[i + n] # faces[i]
validate_nofkind(dice, n) ==
    LET counts == Counter(ShowingFaces(dice))
    IN  \E v \in DOMAIN counts : counts[v] = n

\* a guard that lets equal sizes through
validate_full_house_err_strict(dice, large_n, small_n) ==
    IF small_n > large_n THEN "RuleInputValueError" ELSE NoError

validate_full_house_err(dice, large_n, small_n) ==
    IF small_n >= large_n THEN "RuleInputValueError" ELSE NoError

\* either of the two n-of-a-kinds is enough
validate_full_house_either(dice, large_n, small_n) ==
    validate_nofkind(dice, small_n) \/ validate_nofkind(dice, large_n)

validate_full_house(dice, large_n, small_n) ==
    LET small_nkind == validate_nofkind(dice, small_n)
        large_nkind == validate_nofkind(dice, large_n)
    IN  small_nkind /\ large_nkind

\* max() and min() of an empty list raise ValueError
validate_straight_err(values) ==
    IF Len(values) = 0 THEN "ValueError" ELSE NoError

\* the uniqueness check left out: a duplicate can mask a gap
validate_straight_ranks_only(values) ==
    MaxOf(Range(values)) - MinOf(Range(values)) + 1 = Len(values)
validate_straight(values) ==
    LET ranks_check == MaxOf(Range(values)) - MinOf(Range(values)) + 1 = Len(values)
        unique_check == Cardinality(Range(values)) = Len(values)
    IN  ranks_check /\ unique_check

validate_large_straight_err(dice) == validate_straight_err(ShowingFaces(dice))

validate_large_straight(dice) == validate_straight(ShowingFaces(dice))

\* itertools.combinations(faces, len(faces) - 1): drop one position
DropAt(s, i) == [j \in 1..(Len(s) - 1) |-> IF j < i THEN s[j] ELSE s[j + 1]]

face_subsets(faces) == { DropAt(faces, i) : i \in DOMAIN faces }

\* combinations() raises ValueError for r = -1; for a single face the one
\* subset is empty and validate_straight raises on it
validate_small_straight_err(dice) ==
    LET faces == ShowingFaces(dice)
    IN  IF Len(faces) = 0 THEN "ValueError"
        ELSE IF \E subset \in face_subsets(faces) :
                    validate_straight_err(subset) # NoError
             THEN "ValueError"
             ELSE NoError

\* no die dropped: the whole hand has to be a straight
validate_small_straight_whole(dice) == validate_straight(ShowingFaces(dice))
validate_small_straight(dice) ==
    \E subset \in face_subsets(ShowingFaces(dice)) : validate_straight(subset)

\* Counter keeps first-occurrence order
RECURSIVE FirstOccurrences(_)
FirstOccurrences(values) ==
    IF values = << >> THEN << >>
    ELSE LET init == FirstOccurrences(SubSeq(values, 1, Len(values) - 1))
             x == values[Len(values)]
         IN  IF x \in Range(init) THEN init ELSE Append(init, x)

find_duplicates(values) ==
    LET counts == Counter(values)
    IN  SelectSeq(FirstOccurrences(values), LAMBDA val : counts[val] > 1)

----------------------------------------------------------------------------
(* rules.py: scoring rules *)

ScoringRule(kind, name, section) ==
    [kind |-> kind, name |-> name, section |-> section, rule_score |-> None,
     face_value |-> 0, n |-> 0, large_n |-> 0, small_n |-> 0, score_value |-> 0]

ChanceScoringRule(name, section) == ScoringRule("Chance", name, section)

MultiplesScoringRule(name, face_value, section) ==
    [ScoringRule("Multiples", name, section) EXCEPT !.face_value = face_value]

NofKindScoringRule(name, n, section) ==
    [ScoringRule("NofKind", name, section) EXCEPT !.n = n]

YahtzeeScoringRule(name, section, score_value) ==
    [ScoringRule("Yahtzee", name, section) EXCEPT !.score_value = score_value]

FullHouseScoringRule(name, section, large_n, small_n, score_value) ==
    [ScoringRule("FullHouse", name, section) EXCEPT
        !.large_n = large_n, !.small_n = small_n, !.score_value = score_value]

LargeStraightScoringRule(name, section, score_value) ==
    [ScoringRule("LargeStraight", name, section) EXCEPT !.score_value = score_value]

SmallStraightScoringRule(name, section, score_value) ==
    [ScoringRule("SmallStraight", name, section) EXCEPT !.score_value = score_value]

\* a sum over the distinct faces: a face shown twice counts once
_sum_all_distinct_faces(dice) == SumSeq(FirstOccurrences(ShowingFaces(dice)))

_sum_all_showing_faces(dice) == SumSeq(ShowingFaces(dice))

\* a sum that does not filter by face_value
_sum_matching_faces_unfiltered(dice, face_value) == _sum_all_showing_faces(dice)

_sum_matching_faces(dice, face_value) ==
    _sum_all_showing_faces(find_matching_dice(dice, face_value))

\* the error raised by rule.validate(dice), NoError when it returns
validate_err(rule, dice) ==
    CASE rule.kind = "FullHouse" ->
            validate_full_house_err(dice, rule.large_n, rule.small_n)
      [] rule.kind = "LargeStraight" -> validate_large_straight_err(dice)
      [] rule.kind = "SmallStraight" -> validate_small_straight_err(dice)
      [] OTHER -> NoError

\* an exact n-of-a-kind only
NofKindScoringRule_validate_exact(rule, dice) == validate_nofkind(dice, rule.n)

\* NofKindScoringRule.validate: any(... for x in range(self.n, len(dice) + 1))
NofKindScoringRule_validate(rule, dice) ==
    \E x \in rule.n..Len(dice) : validate_nofkind(dice, x)

\* YahtzeeScoringRule.validate: len(dice) counts the absent entries too
YahtzeeScoringRule_validate(rule, dice) == validate_nofkind(dice, Len(dice))

validate(rule, dice) ==
    CASE rule.kind = "Chance" -> TRUE
      [] rule.kind = "Multiples" -> TRUE
      [] rule.kind = "NofKind" -> NofKindScoringRule_validate(rule, dice)
      [] rule.kind = "Yahtzee" -> YahtzeeScoringRule_validate(rule, dice)
      [] rule.kind = "FullHouse" ->
            validate_full_house(dice, rule.large_n, rule.small_n)
      [] rule.kind = "LargeStraight" -> validate_large_straight(dice)
      [] rule.kind = "SmallStraight" -> validate_small_straight(dice)

_scoring_func(rule, dice) ==
    CASE rule.kind = "Chance" -> _sum_all_showing_faces(dice)
      [] rule.kind = "Multiples" -> _sum_matching_faces(dice, rule.face_value)
      [] rule.kind = "NofKind" -> _sum_all_showing_faces(dice)

IsVariablePattern(rule) == rule.kind \in { "Chance", "Multiples", "NofKind" }

_score_dice(rule, dice) ==
    IF validate(rule, dice)
    THEN IF IsVariablePattern(rule) THEN _scoring_func(rule, dice)
         ELSE rule.score_value
    ELSE 0

\* a check by truthiness instead of `is None`: a score of 0 reads as unscored
_check_rule_not_scored_truthy(rule) ==
    IsNone(rule.rule_score) \/ rule.rule_score = Some(0)

_check_rule_not_scored(rule) == IsNone(rule.rule_score)

\* the error raised by rule.score(dice), NoError when it returns
\* the guard on an already scored rule left out
score_err_unguarded(rule, dice) == validate_err(rule, dice)
score_err(rule, dice) ==
    IF _check_rule_not_scored(rule) THEN validate_err(rule, dice)
    ELSE "RuleAlreadyScoredError"

\* the rule object after rule.score(dice)
score(rule, dice) ==
    IF score_err(rule, dice) = NoError
    THEN [rule EXCEPT !.rule_score = Some(_score_dice(rule, dice))]
    ELSE rule

----------------------------------------------------------------------------
(* rules.py: bonus rules *)

BonusRule(kind, name, section, bonus_value, counter, req_rules) ==
    [kind |-> kind, name |-> name, section |-> section,
     bonus_value |-> bonus_value, counter |-> counter, req_rules |-> req_rules,
     rule_score |-> None, threshold |-> 0, yahtzee_rule |-> 0]

ThresholdBonusRule(name, section, threshold, bonus_value, counter, req_rules) ==
    [BonusRule("Threshold", name, section, bonus_value, counter, req_rules)
        EXCEPT !.threshold = threshold]

CountBonusRule(name, section, bonus_value, counter, req_rules) ==
    BonusRule("Count", name, section, bonus_value, counter, req_rules)

YahtzeeBonusRule(name, yahtzee_rule, bonus_value, section, counter) ==
    [BonusRule("YahtzeeBonus", name, section, bonus_value, counter, None)
        EXCEPT !.yahtzee_rule = yahtzee_rule]

increment(bonus, amt) == [bonus EXCEPT !.counter = bonus.counter + amt]

\* a threshold that has to be exceeded
ThresholdBonusRule_score_bonus_above(bonus) ==
    IF bonus.counter > bonus.threshold THEN bonus.bonus_value ELSE 0

ThresholdBonusRule_score_bonus(bonus) ==
    IF bonus.counter >= bonus.threshold THEN bonus.bonus_value ELSE 0

\* a bonus awarded once, however large the counter
CountBonusRule_score_bonus_once(bonus) ==
    IF bonus.counter > 0 THEN bonus.bonus_value ELSE 0

\* CountBonusRule._score_bonus, inherited by YahtzeeBonusRule
CountBonusRule_score_bonus(bonus) == bonus.counter * bonus.bonus_value

_score_bonus(bonus) ==
    IF bonus.kind = "Threshold"
    THEN ThresholdBonusRule_score_bonus(bonus)
    ELSE CountBonusRule_score_bonus(bonus)

\* a check by truthiness instead of `is None`: a score of 0 reads as unscored
_check_bonus_not_scored_truthy(bonus) ==
    IsNone(bonus.rule_score) \/ bonus.rule_score = Some(0)

_check_bonus_not_scored(bonus) == IsNone(bonus.rule_score)

bonus_score_err(bonus) ==
    IF _check_bonus_not_scored(bonus) THEN NoError ELSE "RuleAlreadyScoredError"

bonus_score(bonus) ==
    IF bonus_score_err(bonus) = NoError
    THEN [bonus EXCEPT !.rule_score = Some(_score_bonus(bonus))]
    ELSE bonus

----------------------------------------------------------------------------
(* scoresheet.py *)

\* rule_names + bonus_names + [yahtzee_bonus.name], from the objects' names
all_names_without_yahtzee(rheap, bheap, rules, bonuses, yahtzee_bonus) ==
    [i \in DOMAIN rules |-> rheap[rules[i]].name]
        \o [i \in DOMAIN bonuses |-> bheap[bonuses[i]].name]

all_names(rheap, bheap, rules, bonuses, yahtzee_bonus) ==
    [i \in DOMAIN rules |-> rheap[rules[i]].name]
        \o [i \in DOMAIN bonuses |-> bheap[bonuses[i]].name]
        \o << bheap[yahtzee_bonus].name >>

duplicate_names(rheap, bheap, rules, bonuses, yahtzee_bonus) ==
    find_duplicates(all_names(rheap, bheap, rules, bonuses, yahtzee_bonus))

_validate_rule_names_err(rheap, bheap, rules, bonuses, yahtzee_bonus) ==
    IF duplicate_names(rheap, bheap, rules, bonuses, yahtzee_bonus) # << >>
    THEN "DuplicateRuleNamesError"
    ELSE NoError

\* a display map keyed from 0 (enumerate without the + 1)
Scoresheet_zero_based(rheap, rules, bonuses, yahtzee_bonus) ==
    [rules |-> rules,
     rules_map |-> [idx \in 0..(Len(rules) - 1) |-> rheap[rules[idx + 1]].name],
     bonuses |-> bonuses,
     yahtzee_bonus |-> yahtzee_bonus]

\* the Scoresheet object built by __init__ when the names validate
Scoresheet(rheap, rules, bonuses, yahtzee_bonus) ==
    [rules |-> rules,
     rules_map |-> [idx \in 1..Len(rules) |-> rheap[rules[idx]].name],
     bonuses |-> bonuses,
     yahtzee_bonus |-> yahtzee_bonus]

\* list indexing in place of the dict: index 0 and negative indexes wrap
\* around to the end of the list
_get_name_from_index_list(sheet, index) ==
    LET n == Len(sheet.rules)
        pos == IF index >= 1 THEN index ELSE n + index
    IN  IF pos \in 1..n
        THEN [err |-> NoError, name |-> sheet.rules_map[pos]]
        ELSE [err |-> "IndexError", name |-> ""]

\* self.rules_map[index]: the name, or KeyError when index is not a key
_get_name_from_index(sheet, index) ==
    IF index \in DOMAIN sheet.rules_map
    THEN [err |-> NoError, name |-> sheet.rules_map[index]]
    ELSE [err |-> "KeyError", name |-> ""]

\* next(rule for rule in self.rules if rule.name == name), as an oid
_get_rule_from_name(rheap, sheet, name) ==
    LET first == MinOf({ i \in DOMAIN sheet.rules : rheap[sheet.rules[i]].name = name })
    IN  sheet.rules[first]

\* only the truthiness test, without the membership test
IsDepBonus_any_rule(bonus, rule) ==
    /\ ~IsNone(bonus.req_rules)
    /\ Val(bonus.req_rules) # << >>

\* bonus.req_rules and rule in bonus.req_rules
IsDepBonus(bonus, rule) ==
    /\ ~IsNone(bonus.req_rules)
    /\ Val(bonus.req_rules) # << >>
    /\ rule \in Range(Val(bonus.req_rules))

\* the bonus heap after the loop of _update_dep_bonuses over `bonuses`
RECURSIVE _update_dep_bonuses(_, _, _, _)
_update_dep_bonuses(bheap, bonuses, rule, rule_amt) ==
    IF bonuses = << >> THEN bheap
    ELSE LET b == Head(bonuses)
             after == IF IsDepBonus(bheap[b], rule)
                      THEN [bheap EXCEPT ![b] = increment(@, rule_amt)]
                      ELSE bheap
         IN  _update_dep_bonuses(after, Tail(bonuses), rule, rule_amt)

_update_rule_score_err(rheap, sheet, name, dice) ==
    score_err(rheap[_get_rule_from_name(rheap, sheet, name)], dice)

\* the error raised by sheet.update_score(index, dice), NoError on return
update_score_err(rheap, sheet, index, dice) ==
    IF _get_name_from_index(sheet, index).err # NoError
    THEN _get_name_from_index(sheet, index).err
    ELSE _update_rule_score_err(rheap, sheet, _get_name_from_index(sheet, index).name, dice)

\* the rule heap after sheet.update_score(index, dice)
update_score_rules(rheap, sheet, index, dice) ==
    IF _get_name_from_index(sheet, index).err # NoError THEN rheap
    ELSE LET rule == _get_rule_from_name(rheap, sheet, _get_name_from_index(sheet, index).name)
         IN  [rheap EXCEPT ![rule] = score(@, dice)]

\* the dependent bonuses updated although rule.score(dice) raised
\* RuleAlreadyScoredError (the error is raised only after the update)
update_score_bonuses_despite_error(rheap, bheap, sheet, index, dice) ==
    IF _get_name_from_index(sheet, index).err # NoError THEN bheap
    ELSE LET rule == _get_rule_from_name(rheap, sheet, _get_name_from_index(sheet, index).name)
             scored == score(rheap[rule], dice)
         IN  IF IsNone(scored.rule_score) THEN bheap
             ELSE _update_dep_bonuses(bheap, sheet.bonuses, rule, Val(scored.rule_score))

\* the bonus heap after sheet.update_score(index, dice): the dependent
\* bonuses are updated only once rule.score(dice) has returned
update_score_bonuses(rheap, bheap, sheet, index, dice) ==
    IF update_score_err(rheap, sheet, index, dice) # NoError THEN bheap
    ELSE LET rule == _get_rule_from_name(rheap, sheet, _get_name_from_index(sheet, index).name)
             scored == score(rheap[rule], dice)
         IN  _update_dep_bonuses(bheap, sheet.bonuses, rule, Val(scored.rule_score))

\* the section filter left out: every rule of the sheet is summed
_get_section_subtotal_score_all(rheap, sheet, section) ==
    LET scores == [i \in DOMAIN sheet.rules |-> rheap[sheet.rules[i]].rule_score]
        truthy == SelectSeq(scores, LAMBDA sc : ~IsNone(sc) /\ Val(sc) # 0)
    IN  SumSeq([i \in DOMAIN truthy |-> Val(truthy[i])])

_get_section_subtotal_score(rheap, sheet, section) ==
    LET in_section == SelectSeq(sheet.rules, LAMBDA r : rheap[r].section = section)
        section_rules == [i \in DOMAIN in_section |->
                            _get_rule_from_name(rheap, sheet, rheap[in_section[i]].name)]
        section_scores == [i \in DOMAIN section_rules |-> rheap[section_rules[i]].rule_score]
        truthy == SelectSeq(section_scores, LAMBDA sc : ~IsNone(sc) /\ Val(sc) # 0)
    IN  SumSeq([i \in DOMAIN truthy |-> Val(truthy[i])])

\* every bonus of the sheet incremented, not the Yahtzee bonus alone
update_yahtzee_bonus_all(bheap, sheet, amt) ==
    [o \in DOMAIN bheap |->
        IF o \in Range(sheet.bonuses) \cup { sheet.yahtzee_bonus }
        THEN increment(bheap[o], amt) ELSE bheap[o]]
update_yahtzee_bonus(bheap, sheet, amt) ==
    [bheap EXCEPT ![sheet.yahtzee_bonus] = increment(@, amt)]

_generate_scores_header == << "Rule", "Name", "Scored" >>

\* f"{section.name} Section".title(): the member's name, title-cased
_generate_section_header(section) ==
    << CASE section = UPPER -> "Upper Section"
         [] section = LOWER -> "Lower Section" >>

\* the index shown is the rule's position among the rules of its section
_generate_score_row_in_section(rheap, sheet, name) ==
    LET rule == _get_rule_from_name(rheap, sheet, name)
        first == MinOf({ i \in DOMAIN sheet.rules : sheet.rules[i] = rule })
        index == Cardinality({ i \in 1..first :
                    rheap[sheet.rules[i]].section = rheap[rule].section })
    IN  << index, name, rheap[rule].rule_score >>
_generate_score_row(rheap, sheet, name) ==
    LET index == MinOf({ idx \in DOMAIN sheet.rules_map : sheet.rules_map[idx] = name })
        rule == _get_rule_from_name(rheap, sheet, name)
    IN  << index, name, rheap[rule].rule_score >>

_generate_section(rheap, sheet, section) ==
    LET section_header == _generate_section_header(section)
        scores_header == _generate_scores_header
        section_rules == SelectSeq(sheet.rules, LAMBDA r : rheap[r].section = section)
        scores_rows == [i \in DOMAIN section_rules |->
                            _generate_score_row(rheap, sheet, rheap[section_rules[i]].name)]
    IN  << section_header >> \o << scores_header >> \o scores_rows

_generate_scoresheet(rheap, sheet) ==
    LET upper_section == _generate_section(rheap, sheet, UPPER)
        lower_section == _generate_section(rheap, sheet, LOWER)
    IN  upper_section \o lower_section

----------------------------------------------------------------------------
(* Calls: every action records the call it models and how the call ended *)

Call(op, err) ==
    [op |-> op, err |-> err, oid |-> 0, sheet |-> 0, player |-> 0,
     index |-> 0, dice |-> << >>, amt |-> 0, args |-> << >>, msg |-> << >>]

\* amounts handed to increment(): amt is any int, a negative one included
Amts == (-1)..MaxAmt

\* rule.score(dice) called directly on the ScoringRule object o
RuleScore(o, dice) ==
    /\ rule_obj' = [rule_obj EXCEPT ![o] = score(@, dice)]
    /\ last' = [Call("score", score_err(rule_obj[o], dice)) EXCEPT
                    !.oid = o, !.dice = dice]
    /\ UNCHANGED <<bonus_obj, die_obj, sheets, players>>

\* bonus.increment(amt) called directly on the BonusRule object o
BonusIncrement(o, amt) ==
    /\ bonus_obj[o].counter + amt \in (-MaxCounter)..MaxCounter
    /\ bonus_obj' = [bonus_obj EXCEPT ![o] = increment(@, amt)]
    /\ last' = [Call("increment", NoError) EXCEPT !.oid = o, !.amt = amt]
    /\ UNCHANGED <<rule_obj, die_obj, sheets, players>>

\* bonus.score() called directly on the BonusRule object o
BonusScore(o) ==
    /\ bonus_obj' = [bonus_obj EXCEPT ![o] = bonus_score(@)]
    /\ last' = [Call("bonus_score", bonus_score_err(bonus_obj[o])) EXCEPT !.oid = o]
    /\ UNCHANGED <<rule_obj, die_obj, sheets, players>>

\* Scoresheet(rules, bonuses, yahtzee_bonus): a new sheet, or the error
\* with the duplicated names in its message; one constructor call per run
NewScoresheet(rules, bonuses, yahtzee_bonus) ==
    LET err == _validate_rule_names_err(rule_obj, bonus_obj, rules, bonuses, yahtzee_bonus)
        dup == duplicate_names(rule_obj, bonus_obj, rules, bonuses, yahtzee_bonus)
    IN  /\ last.op = "init"
        /\ sheets' = IF err = NoError
                      THEN Append(sheets, Scoresheet(rule_obj, rules, bonuses, yahtzee_bonus))
                      ELSE sheets
        /\ last' = [Call("Scoresheet", err) EXCEPT
                        !.args = << rules, bonuses, yahtzee_bonus >>, !.msg = dup]
        /\ UNCHANGED <<rule_obj, bonus_obj, die_obj, players>>

\* sheets[k].update_score(index, dice)
UpdateScore(k, index, dice) ==
    /\ rule_obj' = update_score_rules(rule_obj, sheets[k], index, dice)
    /\ bonus_obj' = update_score_bonuses(rule_obj, bonus_obj, sheets[k], index, dice)
    /\ last' = [Call("update_score", update_score_err(rule_obj, sheets[k], index, dice))
                    EXCEPT !.sheet = k, !.index = index]
    /\ UNCHANGED <<die_obj, sheets, players>>

\* sheets[k].update_yahtzee_bonus(amt)
UpdateYahtzeeBonus(k, amt) ==
    /\ bonus_obj[sheets[k].yahtzee_bonus].counter + amt <= MaxCounter
    /\ bonus_obj' = update_yahtzee_bonus(bonus_obj, sheets[k], amt)
    /\ last' = [Call("update_yahtzee_bonus", NoError) EXCEPT !.sheet = k, !.amt = amt]
    /\ UNCHANGED <<rule_obj, die_obj, sheets, players>>

----------------------------------------------------------------------------
(* dice.py, players.py, game.py *)

Die(sides, starting_face) == [sides |-> sides, showing_face |-> starting_face]

\* Python truth value of the starting_face argument: None and 0 are falsy
Truthy(starting_face) == ~IsNone(starting_face) /\ Val(starting_face) # 0

\* self.showing_face = starting_face if starting_face else self._roll_die()
Die_showing_face(starting_face, rolled) ==
    IF Truthy(starting_face) THEN Val(starting_face) ELSE rolled

Die_err(sides, starting_face, rolled) ==
    IF Die_showing_face(starting_face, rolled) \notin 1..sides
    THEN "IllegalDieValueError" ELSE NoError

\* Die(sides, starting_face); rolled is the face random.choice would return
NewDie(sides, starting_face, rolled) ==
    /\ rolled \in 1..sides
    /\ LET err == Die_err(sides, starting_face, rolled)
       IN  /\ die_obj' = IF err # NoError THEN die_obj
                         ELSE Append(die_obj,
                                     Die(sides, Die_showing_face(starting_face, rolled)))
           /\ last' = [Call("Die", err) EXCEPT
                            !.oid = IF err # NoError THEN 0 ELSE Len(die_obj) + 1,
                            !.args = << sides, starting_face >>]
    /\ UNCHANGED <<rule_obj, bonus_obj, sheets, players>>

\* die_obj[o].roll()
DieRoll(o, rolled) ==
    /\ rolled \in 1..die_obj[o].sides
    /\ die_obj' = [die_obj EXCEPT ![o].showing_face = rolled]
    /\ last' = [Call("roll", NoError) EXCEPT !.oid = o]
    /\ UNCHANGED <<rule_obj, bonus_obj, sheets, players>>

\* a Scoresheet reference and the list of Die references of a player
Player(scoresheet, dice) == [scoresheet |-> scoresheet, dice |-> dice]

\* the dice of player p as handed to update_score: no entry is absent
PlayerDice(p) ==
    [i \in DOMAIN players[p].dice |-> Some(die_obj[players[p].dice[i]].showing_face)]

\* copy.deepcopy: the p-th copy of object o of a graph of n objects is a
\* fresh object, and references inside one graph are remapped together;
\* shared_ref is the copy by reference, the original object itself
shared_ref(o, p, n) == o

deepcopy_ref(o, p, n) == o + p * n

deepcopy_refs(os, p, n) == [i \in DOMAIN os |-> deepcopy_ref(os[i], p, n)]

\* the fields of the p-th copy of a bonus object: its references to rule
\* objects follow the copy
\* a copy whose references still point at the rule objects of the original
deepcopy_bonus_keeps_refs(bonus, p, n) == bonus

deepcopy_bonus(bonus, p, n) ==
    [bonus EXCEPT
        !.req_rules = IF IsNone(@) THEN None ELSE Some(deepcopy_refs(Val(@), p, n)),
        !.yahtzee_rule = IF @ = 0 THEN 0 ELSE deepcopy_ref(@, p, n)]

deepcopy_sheet(sheet, p, nrules, nbonuses) ==
    [rules |-> deepcopy_refs(sheet.rules, p, nrules),
     rules_map |-> sheet.rules_map,
     bonuses |-> deepcopy_refs(sheet.bonuses, p, nbonuses),
     yahtzee_bonus |-> deepcopy_ref(sheet.yahtzee_bonus, p, nbonuses)]

\* keyword arguments accepted by Scoresheet.update_score
update_score_params == { "index", "dice" }

\* binding a call's keyword arguments to the parameters of a function
\* without defaults: TypeError on an unexpected or a missing keyword
bind_err(params, kwargs) == IF kwargs = params THEN NoError ELSE "TypeError"

\* Player.score_rule(rule_name) calls update_score(name=rule_name, dice=self.dice)
Player_score_rule_err == bind_err(update_score_params, { "name", "dice" })

\* player.scoresheet.update_score(index, player.dice)
PlayerUpdateScore(p, index) ==
    UpdateScore(players[p].scoresheet, index, PlayerDice(p))

\* player.roll_dice(dice): every die at a chosen position shows a face
\* drawn by random.choice(self.faces)
PlayerRollDice(p, choices, faces) ==
    /\ die_obj' = [o \in DOMAIN die_obj |->
                        IF \E i \in choices : players[p].dice[i] = o
                        THEN [die_obj[o] EXCEPT !.showing_face =
                                faces[CHOOSE i \in choices : players[p].dice[i] = o]]
                        ELSE die_obj[o]]
    /\ last' = [Call("roll_dice", NoError) EXCEPT !.player = p]
    /\ UNCHANGED <<rule_obj, bonus_obj, sheets, players>>

\* _pick_reroll_dice(dice) with the menu answering the entries `selected`
\* (positions counted from 1): the entry after the last die is "None"; the
\* answer None and the empty list are the empty set here
_pick_reroll_dice(dice, selected) ==
    IF (Len(dice) + 1) \in selected THEN {} ELSE selected

\* game.reroll_dice(player) with the menu answering `selected`
GameRerollDice(p, selected, faces) ==
    LET dice_to_reroll == _pick_reroll_dice(players[p].dice, selected)
    IN  IF dice_to_reroll # {}
        THEN PlayerRollDice(p, dice_to_reroll, faces)
        ELSE /\ last' = [Call("reroll_dice", NoError) EXCEPT !.player = p]
             /\ UNCHANGED <<rule_obj, bonus_obj, die_obj, sheets, players>>

\* the names offered by the menu of game.score_rule(player)
available_rules(p) ==
    { rule_obj[o].name : o \in { r \in Range(sheets[players[p].scoresheet].rules) :
                                    IsNone(rule_obj[r].rule_score) } }

\* game.score_rule(player) with the menu answering rule_name: the call of
\* update_score inside Player.score_rule raises while its arguments are
\* bound, before any statement of update_score runs
GameScoreRule(p, rule_name) ==
    /\ rule_name \in available_rules(p)
    /\ last' = [Call("score_rule", Player_score_rule_err) EXCEPT
                    !.player = p, !.args = << rule_name >>]
    /\ UNCHANGED <<rule_obj, bonus_obj, die_obj, sheets, players>>

----------------------------------------------------------------------------
(* SpecRules: one rule object or one bonus object, of any variant, driven   *)
(* by every call sequence over the bounded inputs                           *)

RuleConfigs ==
    { ChanceScoringRule("name", LOWER) }
    \cup { MultiplesScoringRule("name", f, UPPER) : f \in 1..Sides }
    \cup { NofKindScoringRule("name", n, LOWER) : n \in 1..MaxDice }
    \cup { YahtzeeScoringRule("name", LOWER, SCORE_YAHTZEE) }
    \cup { FullHouseScoringRule("name", LOWER, l, s, SCORE_FULL_HOUSE) :
                l \in 1..MaxDice, s \in 1..MaxDice }
    \cup { LargeStraightScoringRule("name", LOWER, SCORE_LARGE_STRAIGHT) }
    \cup { SmallStraightScoringRule("name", LOWER, SCORE_SMALL_STRAIGHT) }

Thresholds == { 0, 2, BONUS_UPPER_THRESHOLD }

BonusConfigs ==
    { ThresholdBonusRule("name", UPPER, t, BONUS_UPPER_SCORE, 0, None) :
            t \in Thresholds }
    \cup { CountBonusRule("name", LOWER, BONUS_LOWER_SCORE, 0, None) }
    \cup { YahtzeeBonusRule("name", 0, BONUS_YAHTZEE_SCORE, LOWER, 0) }

InitRules ==
    /\ \/ \E r \in RuleConfigs : rule_obj = << r >> /\ bonus_obj = << >>
       \/ \E b \in BonusConfigs : rule_obj = << >> /\ bonus_obj = << b >>
    /\ die_obj = << >>
    /\ sheets = << >>
    /\ players = << >>
    /\ last = Call("init", NoError)

NextRules ==
    \/ \E o \in DOMAIN rule_obj, dice \in DiceLists : RuleScore(o, dice)
    \/ \E o \in DOMAIN bonus_obj, amt \in Amts : BonusIncrement(o, amt)
    \/ \E o \in DOMAIN bonus_obj : BonusScore(o)

SpecRules == InitRules /\ [][NextRules]_vars

----------------------------------------------------------------------------
(* Claims on single rules and bonuses *)

\* C1: once a ScoringRule of any variant has been scored (a score of 0
\* included), every later score(dice') call on it ends in
\* RuleAlreadyScoredError and its rule_score keeps the first value.
C1_ScoredRuleRejectsRescoring ==
    [][\A o \in DOMAIN rule_obj :
          ~IsNone(rule_obj[o].rule_score) =>
              /\ rule_obj'[o].rule_score = rule_obj[o].rule_score
              /\ (last'.op = "score" /\ last'.oid = o) =>
                     last'.err = "RuleAlreadyScoredError"]_vars

\* a rule whose first score was 0 has just refused a second score(dice') on
\* dice that would have given points
C1_Witness ==
    \E o \in DOMAIN rule_obj :
        /\ rule_obj[o].rule_score = Some(0)
        /\ last.op = "score" /\ last.oid = o
        /\ last.err = "RuleAlreadyScoredError"
        /\ validate_err(rule_obj[o], last.dice) = NoError
        /\ _score_dice(rule_obj[o], last.dice) > 0

\* C2: once a BonusRule of any variant has been scored (a score of 0
\* included), every later score() call on it ends in RuleAlreadyScoredError
\* and its rule_score keeps the value computed by the first call.
C2_ScoredBonusRejectsRescoring ==
    [][\A o \in DOMAIN bonus_obj :
          ~IsNone(bonus_obj[o].rule_score) =>
              /\ bonus_obj'[o].rule_score = bonus_obj[o].rule_score
              /\ (last'.op = "bonus_score" /\ last'.oid = o) =>
                     last'.err = "RuleAlreadyScoredError"]_vars

\* a bonus scored as 0 has refused a second score() although its counter
\* would by now give points
C2_Witness ==
    \E o \in DOMAIN bonus_obj :
        /\ bonus_obj[o].rule_score = Some(0)
        /\ last.op = "bonus_score" /\ last.oid = o
        /\ last.err = "RuleAlreadyScoredError"
        /\ _score_bonus(bonus_obj[o]) > 0

\* number of dice of the hand that show face f
Occurrences(dice, f) == Cardinality({ i \in DOMAIN dice : dice[i] = Some(f) })

\* the faces shown by the dice of the hand
FacesShown(dice) == { Val(dice[i]) : i \in { j \in DOMAIN dice : ~IsNone(dice[j]) } }

RECURSIVE SumFaces(_, _)
SumFaces(F, dice) ==
    IF F = {} THEN 0
    ELSE LET f == CHOOSE x \in F : TRUE
         IN  f * Occurrences(dice, f) + SumFaces(F \ { f }, dice)

\* sum of the faces of all present dice
PointsOfHand(dice) == SumFaces(FacesShown(dice), dice)

\* the last call scored the rule object o, of variant kind, with last.dice
ScoredNow(o, kind) ==
    /\ last.op = "score" /\ last.oid = o /\ last.err = NoError
    /\ rule_obj[o].kind = kind

\* C12: a ChanceScoringRule scores the sum of all present faces, for every
\* hand of dice.
C12_ChanceScoresSumOfFaces ==
    \A o \in DOMAIN rule_obj :
        ScoredNow(o, "Chance") =>
            rule_obj[o].rule_score = Some(PointsOfHand(last.dice))

\* a hand with a repeated face, scored as the sum with the repetition
C12_Witness ==
    \E o \in DOMAIN rule_obj :
        /\ ScoredNow(o, "Chance")
        /\ last.dice = << Some(1), Some(1), Some(3) >>
        /\ rule_obj[o].rule_score = Some(5)

\* C13: a MultiplesScoringRule scores face_value times the number of dice
\* showing face_value, for every hand: 0 when no die shows it, and dice
\* showing other faces never count.
C13_MultiplesScoresMatchingFaces ==
    \A o \in DOMAIN rule_obj :
        ScoredNow(o, "Multiples") =>
            rule_obj[o].rule_score =
                Some(rule_obj[o].face_value * Occurrences(last.dice, rule_obj[o].face_value))

\* two dice show the face of the rule and a third die shows another face
C13_Witness ==
    \E o \in DOMAIN rule_obj :
        /\ ScoredNow(o, "Multiples")
        /\ rule_obj[o].face_value = 2
        /\ last.dice = << Some(2), Some(2), Some(3) >>
        /\ rule_obj[o].rule_score = Some(4)

\* C14: a NofKindScoringRule(n) scores the sum of all showing faces if and
\* only if some face of the hand occurs at least n times (more than n
\* included), and 0 otherwise.
C14_NofKindAtLeastN ==
    \A o \in DOMAIN rule_obj :
        ScoredNow(o, "NofKind") =>
            rule_obj[o].rule_score =
                Some(IF \E f \in FacesShown(last.dice) :
                            Occurrences(last.dice, f) >= rule_obj[o].n
                     THEN PointsOfHand(last.dice)
                     ELSE 0)

\* a three-of-a-kind scored by a rule that asks for two of a kind
C14_Witness ==
    \E o \in DOMAIN rule_obj :
        /\ ScoredNow(o, "NofKind")
        /\ rule_obj[o].n = 2
        /\ last.dice = << Some(1), Some(1), Some(1) >>
        /\ rule_obj[o].rule_score = Some(3)

\* C15: a YahtzeeScoringRule scores score_value if and only if all dice of
\* the hand show the same face, and 0 otherwise.
C15_YahtzeeAllDiceMatch ==
    \A o \in DOMAIN rule_obj :
        ScoredNow(o, "Yahtzee") =>
            rule_obj[o].rule_score =
                Some(IF Cardinality(FacesShown(last.dice)) = 1
                     THEN rule_obj[o].score_value
                     ELSE 0)

\* C16: for small_n < large_n a hand is a full house if and only if some
\* face occurs exactly large_n times and a different face exactly small_n
\* times; the FullHouseScoringRule then scores score_value and otherwise 0.
C16_FullHouseExactCounts ==
    \A o \in DOMAIN rule_obj :
        ScoredNow(o, "FullHouse") =>
            LET full_house ==
                    \E f \in FacesShown(last.dice), g \in FacesShown(last.dice) :
                        /\ f # g
                        /\ Occurrences(last.dice, f) = rule_obj[o].large_n
                        /\ Occurrences(last.dice, g) = rule_obj[o].small_n
            IN  /\ rule_obj[o].small_n < rule_obj[o].large_n
                /\ validate_full_house(last.dice, rule_obj[o].large_n,
                                       rule_obj[o].small_n) <=> full_house
                /\ rule_obj[o].rule_score =
                        Some(IF full_house THEN rule_obj[o].score_value ELSE 0)

\* a pair next to a single die, scored by a rule for a pair and a single
C16_Witness ==
    \E o \in DOMAIN rule_obj :
        /\ ScoredNow(o, "FullHouse")
        /\ rule_obj[o].large_n = 2 /\ rule_obj[o].small_n = 1
        /\ last.dice = << Some(1), Some(1), Some(2) >>
        /\ rule_obj[o].rule_score = Some(SCORE_FULL_HOUSE)

\* C17: with small_n >= large_n every score(dice) of a FullHouseScoringRule
\* ends in RuleInputValueError, for every hand, and the rule stays unscored.
C17_FullHouseRejectsSizes ==
    \A o \in DOMAIN rule_obj :
        (rule_obj[o].kind = "FullHouse" /\ rule_obj[o].small_n >= rule_obj[o].large_n) =>
            /\ IsNone(rule_obj[o].rule_score)
            /\ (last.op = "score" /\ last.oid = o) =>
                    /\ last.err = "RuleInputValueError"
                    /\ validate_full_house_err(last.dice, rule_obj[o].large_n,
                                               rule_obj[o].small_n)
                            = "RuleInputValueError"

\* equal sizes: the call on a hand holding a pair has failed
C17_Witness ==
    \E o \in DOMAIN rule_obj :
        /\ rule_obj[o].kind = "FullHouse"
        /\ rule_obj[o].small_n = 2 /\ rule_obj[o].large_n = 2
        /\ last.op = "score" /\ last.oid = o
        /\ last.dice = << Some(1), Some(1), Some(2) >>
        /\ last.err = "RuleInputValueError"
        /\ IsNone(rule_obj[o].rule_score)

\* the last call scored the bonus object o
BonusScoredNow(o) ==
    last.op = "bonus_score" /\ last.oid = o /\ last.err = NoError

\* C18: ThresholdBonusRule.score() sets rule_score to bonus_value if the
\* counter has reached the threshold at the time of scoring (equality
\* included) and to 0 otherwise; the default threshold is 63 and the default
\* bonus 35.
C18_ThresholdBonusScore ==
    /\ BONUS_UPPER_THRESHOLD = 63 /\ BONUS_UPPER_SCORE = 35
    /\ \A o \in DOMAIN bonus_obj :
            (BonusScoredNow(o) /\ bonus_obj[o].kind = "Threshold") =>
                bonus_obj[o].rule_score =
                    Some(IF bonus_obj[o].counter >= bonus_obj[o].threshold
                         THEN bonus_obj[o].bonus_value
                         ELSE 0)

\* scored with the counter exactly at the threshold
C18_Witness ==
    \E o \in DOMAIN bonus_obj :
        /\ BonusScoredNow(o) /\ bonus_obj[o].kind = "Threshold"
        /\ bonus_obj[o].threshold = 2 /\ bonus_obj[o].counter = 2
        /\ bonus_obj[o].rule_score = Some(BONUS_UPPER_SCORE)

\* C19: CountBonusRule.score() and YahtzeeBonusRule.score() set rule_score
\* to counter times bonus_value (default 100), the counter being the sum of
\* all increments made before; a counter of 0 scores 0.
C19_CountBonusScore ==
    [][ /\ BONUS_LOWER_SCORE = 100 /\ BONUS_YAHTZEE_SCORE = 100
        /\ \A o \in DOMAIN bonus_obj :
                bonus_obj[o].kind \in { "Count", "YahtzeeBonus" } =>
                    /\ (last'.op = "increment" /\ last'.oid = o) =>
                            bonus_obj'[o].counter = bonus_obj[o].counter + last'.amt
                    /\ (last'.op = "bonus_score" /\ last'.oid = o) =>
                            bonus_obj'[o].counter = bonus_obj[o].counter
                    /\ (last'.op = "bonus_score" /\ last'.oid = o
                            /\ last'.err = NoError) =>
                            bonus_obj'[o].rule_score =
                                Some(bonus_obj[o].counter * bonus_obj[o].bonus_value) ]_vars

\* a counter of 3, more than one increment can give, scored as 300
C19_Witness ==
    \E o \in DOMAIN bonus_obj :
        /\ BonusScoredNow(o)
        /\ bonus_obj[o].kind \in { "Count", "YahtzeeBonus" }
        /\ bonus_obj[o].counter = 3 /\ MaxAmt < 3
        /\ bonus_obj[o].rule_score = Some(3 * BONUS_YAHTZEE_SCORE)

\* C20: once a bonus rule has been scored its counter is never incremented
\* again, whatever call asks for the increment.
C20_NoIncrementAfterScoring ==
    [][ \A o \in DOMAIN bonus_obj :
            ~IsNone(bonus_obj[o].rule_score) =>
                bonus_obj'[o].counter = bonus_obj[o].counter ]_vars

\* C21: the counter of a bonus rule, which starts at 0, never decreases,
\* whatever sequence of increment calls is made.
C21_CounterNeverDecreases ==
    [][ \A o \in DOMAIN bonus_obj :
            bonus_obj'[o].counter >= bonus_obj[o].counter ]_vars

\* positions of the present dice of a hand
Present(dice) == { i \in DOMAIN dice : ~IsNone(dice[i]) }

\* the dice at the positions P show pairwise distinct faces that fill an
\* interval of integers
RunOn(dice, P) ==
    /\ P # {}
    /\ \A i, j \in P : i # j => dice[i] # dice[j]
    /\ \E a \in { Val(dice[i]) : i \in P } :
            { Val(dice[i]) : i \in P } = a..(a + Cardinality(P) - 1)

\* C26: validate_straight is true if and only if the values are pairwise
\* distinct and form a contiguous run, in any order; validate_large_straight
\* applies it to all present faces of the hand, so the LargeStraight rule
\* scores score_value on such a hand and 0 on a hand with a duplicate or a gap.
C26_LargeStraightIsRun ==
    \A o \in DOMAIN rule_obj :
        ScoredNow(o, "LargeStraight") =>
            /\ validate_straight(ShowingFaces(last.dice))
                    <=> RunOn(last.dice, Present(last.dice))
            /\ validate_large_straight(last.dice)
                    <=> RunOn(last.dice, Present(last.dice))
            /\ rule_obj[o].rule_score =
                    Some(IF RunOn(last.dice, Present(last.dice))
                         THEN rule_obj[o].score_value ELSE 0)

\* a duplicate masking a gap: highest minus lowest plus one is the count,
\* and the hand scores 0
C26_Witness ==
    \E o \in DOMAIN rule_obj :
        /\ ScoredNow(o, "LargeStraight")
        /\ last.dice = << Some(3), Some(1), Some(1) >>
        /\ rule_obj[o].rule_score = Some(0)

\* removing one present die leaves dice that form a straight
DropOneIsRun(dice) ==
    \E i \in Present(dice) : RunOn(dice, Present(dice) \ { i })

\* the faces of a hand of k present dice contain k - 1 consecutive values
HoldsRunOfAllButOne(dice) ==
    \E a \in FacesShown(dice) :
        a..(a + Cardinality(Present(dice)) - 2) \subseteq FacesShown(dice)

\* the example hands of the specification
SmallStraightExamples ==
    /\ validate_small_straight(<< Some(1), Some(2), Some(3), Some(4), Some(5) >>)
    /\ validate_small_straight(<< Some(1), Some(1), Some(2), Some(3), Some(4) >>)
    /\ ~validate_small_straight(<< Some(1), Some(1), Some(2), Some(2), Some(3) >>)
    /\ ~validate_small_straight(<< Some(1), Some(1), Some(3), Some(4), Some(5) >>)

\* C25: validate_small_straight is true if and only if removing exactly one
\* die leaves present faces that form a straight, which for a hand of k >= 2
\* dice means that the faces contain k - 1 consecutive distinct values; the
\* SmallStraight rule scores score_value on such a hand and 0 otherwise.
C25_SmallStraightDropOne ==
    \A o \in DOMAIN rule_obj :
        ScoredNow(o, "SmallStraight") =>
            /\ validate_small_straight(last.dice) <=> DropOneIsRun(last.dice)
            /\ Cardinality(Present(last.dice)) >= 2 =>
                    (validate_small_straight(last.dice) <=> HoldsRunOfAllButOne(last.dice))
            /\ rule_obj[o].rule_score =
                    Some(IF DropOneIsRun(last.dice) THEN rule_obj[o].score_value ELSE 0)
            /\ SmallStraightExamples

\* a pair next to the following face: dropping one die of the pair leaves a
\* straight, the whole hand is none
C25_Witness ==
    \E o \in DOMAIN rule_obj :
        /\ ScoredNow(o, "SmallStraight")
        /\ last.dice = << Some(1), Some(2), Some(1) >>
        /\ ~validate_large_straight(last.dice)
        /\ rule_obj[o].rule_score = Some(SCORE_SMALL_STRAIGHT)

\* the hand without its absent entries
WithoutAbsent(dice) == SelectSeq(dice, LAMBDA d : ~IsNone(d))

\* the rule object as it was before it was scored
Unscored(rule) == [rule EXCEPT !.rule_score = None]

\* C27: absent entries of a hand are skipped by every rule and validator:
\* scoring a hand ends as scoring the same hand with the absent entries
\* removed ends, with the same error or the same points.
C27_AbsentEntriesSkipped ==
    \A o \in DOMAIN rule_obj :
        (last.op = "score" /\ last.oid = o /\ last.err # "RuleAlreadyScoredError") =>
            /\ last.err = score_err(Unscored(rule_obj[o]), WithoutAbsent(last.dice))
            /\ rule_obj[o].rule_score
                    = score(Unscored(rule_obj[o]), WithoutAbsent(last.dice)).rule_score

\* C29: the straight rules and validators return for every hand, the empty
\* hand, a hand of absent entries only and a single die included: a score
\* call on an unscored Large or Small straight rule never raises.
C29_StraightsNeverRaise ==
    \A o \in DOMAIN rule_obj :
        (last.op = "score" /\ last.oid = o
            /\ rule_obj[o].kind \in { "LargeStraight", "SmallStraight" }) =>
                /\ last.err \in { NoError, "RuleAlreadyScoredError" }
                /\ validate_large_straight_err(last.dice) = NoError
                /\ validate_small_straight_err(last.dice) = NoError

\* the sequences holding the entries of s in every order
Reorderings(s) ==
    { [i \in DOMAIN s |-> s[f[i]]] :
        f \in { g \in [DOMAIN s -> DOMAIN s] : \A i, j \in DOMAIN s : g[i] = g[j] => i = j } }

\* C30: the result of every rule and validator depends only on the multiset
\* of showing faces: scoring any reordering of the hand ends with the same
\* error or the same points, and validate_nofkind answers the same for it.
C30_OrderOfDiceIrrelevant ==
    \A o \in DOMAIN rule_obj :
        (last.op = "score" /\ last.oid = o /\ last.err # "RuleAlreadyScoredError") =>
            \A dice \in Reorderings(last.dice) :
                /\ score_err(Unscored(rule_obj[o]), dice) = last.err
                /\ score(Unscored(rule_obj[o]), dice).rule_score = rule_obj[o].rule_score
                /\ last.err = NoError =>
                        validate(rule_obj[o], dice) = validate(rule_obj[o], last.dice)
                /\ \A n \in 1..MaxDice :
                        validate_nofkind(dice, n) = validate_nofkind(last.dice, n)

\* a pair split by another die, scored as two of a kind: the pair is
\* found although its dice do not lie next to each other
C30_Witness ==
    \E o \in DOMAIN rule_obj :
        /\ ScoredNow(o, "NofKind") /\ rule_obj[o].n = 2
        /\ last.dice = << Some(1), Some(2), Some(1) >>
        /\ rule_obj[o].rule_score = Some(4)
        /\ << Some(1), Some(1), Some(2) >> \in Reorderings(last.dice)

----------------------------------------------------------------------------
(* SpecCtor: construction of a scoresheet from rule and bonus objects whose *)
(* names are drawn from a small set                                         *)

\* number of rule objects, and of bonus objects, offered to the constructor
CtorObjs == 2

Names == { "rule", "bonus", "extra" }

InitCtor ==
    /\ rule_obj \in [1..CtorObjs -> { ChanceScoringRule(n, LOWER) : n \in Names }]
    /\ \E bs \in [1..CtorObjs ->
                    { CountBonusRule(n, LOWER, BONUS_LOWER_SCORE, 0, None) : n \in Names }],
          yb \in { YahtzeeBonusRule(n, 0, BONUS_YAHTZEE_SCORE, LOWER, 0) : n \in Names } :
            bonus_obj = Append(bs, yb)
    /\ die_obj = << >>
    /\ sheets = << >>
    /\ players = << >>
    /\ last = Call("init", NoError)

\* the first i rule objects and the first j bonus objects, in heap order;
\* the names of the objects range over every assignment in InitCtor
NextCtor ==
    \E i \in 0..CtorObjs, j \in 0..CtorObjs :
        NewScoresheet([k \in 1..i |-> k], [k \in 1..j |-> k], CtorObjs + 1)

SpecCtor == InitCtor /\ [][NextCtor]_vars

\* the names handed to the last Scoresheet(...) call, by argument position
CtorEntries ==
    { << "rules", i >> : i \in DOMAIN last.args[1] }
        \cup { << "bonuses", i >> : i \in DOMAIN last.args[2] }
        \cup { << "yahtzee_bonus", 1 >> }

CtorNameOf(e) ==
    CASE e[1] = "rules" -> rule_obj[last.args[1][e[2]]].name
      [] e[1] = "bonuses" -> bonus_obj[last.args[2][e[2]]].name
      [] e[1] = "yahtzee_bonus" -> bonus_obj[last.args[3]].name

CtorDuplicated ==
    { CtorNameOf(e) : e \in { x \in CtorEntries :
            \E y \in CtorEntries : y # x /\ CtorNameOf(y) = CtorNameOf(x) } }

\* C3: Scoresheet construction succeeds iff the rule names, bonus names and
\* the Yahtzee-bonus name are pairwise distinct; otherwise it fails with
\* DuplicateRuleNamesError and the message lists every duplicated name once.
C3_ConstructionIffDistinctNames ==
    last.op = "Scoresheet" =>
        /\ (last.err = NoError) <=> (CtorDuplicated = {})
        /\ last.err = NoError =>
                /\ Len(sheets) = 1
                /\ sheets[1].rules = last.args[1]
                /\ sheets[1].bonuses = last.args[2]
                /\ sheets[1].yahtzee_bonus = last.args[3]
        /\ last.err # NoError =>
                /\ last.err = "DuplicateRuleNamesError"
                /\ sheets = << >>
                /\ Range(last.msg) = CtorDuplicated
                /\ Len(last.msg) = Cardinality(CtorDuplicated)

\* a construction refused for two duplicated names, one of them shared
\* with the Yahtzee bonus
C3_Witness ==
    /\ last.op = "Scoresheet"
    /\ last.err = "DuplicateRuleNamesError"
    /\ Len(last.msg) = 2
    /\ bonus_obj[last.args[3]].name \in Range(last.msg)

----------------------------------------------------------------------------
(* Spec: one scoresheet with rules of both sections, bonuses that depend on *)
(* its rules, a bonus without required rules and the Yahtzee bonus          *)

\* sides of the dice and longest dice sequence handed to the sheet
SheetSides == 2
SheetMaxDice == 2
\* largest counter value the Yahtzee bonus is driven to
SheetMaxCounter == 1

\* the dice sequences handed to the sheet: every die present
SheetDiceLists == SeqsUpTo({ Some(f) : f \in 1..SheetSides }, SheetMaxDice)

\* threshold of the sheet's threshold bonus, within reach of the bounded dice
SheetThreshold == 3

SheetRuleObjs ==
    << ChanceScoringRule("rule1", UPPER),
       MultiplesScoringRule("rule2", 2, UPPER),
       LargeStraightScoringRule("rule3", LOWER, SCORE_LARGE_STRAIGHT),
       YahtzeeScoringRule("name1", LOWER, SCORE_YAHTZEE) >>

SheetBonusObjs ==
    << ThresholdBonusRule("bonus1", UPPER, SheetThreshold, BONUS_UPPER_SCORE, 0,
                          Some(<< 1, 2 >>)),
       ThresholdBonusRule("bonus2", LOWER, SheetThreshold, BONUS_UPPER_SCORE, 0,
                          Some(<< 2, 3, 2 >>)),
       CountBonusRule("bonus3", LOWER, BONUS_LOWER_SCORE, 0, None),
       YahtzeeBonusRule("bonus4", 4, BONUS_YAHTZEE_SCORE, LOWER, 0) >>

Init ==
    /\ rule_obj = SheetRuleObjs
    /\ bonus_obj = SheetBonusObjs
    /\ die_obj = << >>
    /\ sheets = << Scoresheet(rule_obj, << 1, 2, 3 >>, << 1, 2, 3 >>, 4) >>
    /\ players = << >>
    /\ last = Call("Scoresheet", NoError)

\* indexes handed to update_score: every display index, 0, a negative
\* index and one past the end
SheetIndexes(k) == -1..(Len(sheets[k].rules) + 1)

SheetBonuses(k) == Range(sheets[k].bonuses) \cup { sheets[k].yahtzee_bonus }

Next ==
    \/ \E k \in DOMAIN sheets :
            \E index \in SheetIndexes(k), dice \in SheetDiceLists :
                UpdateScore(k, index, dice)
    \/ \E k \in DOMAIN sheets, amt \in 1..MaxAmt :
            /\ bonus_obj[sheets[k].yahtzee_bonus].counter + amt <= SheetMaxCounter
            /\ UpdateYahtzeeBonus(k, amt)
    \/ \E k \in DOMAIN sheets : \E o \in SheetBonuses(k) : BonusScore(o)

Spec == Init /\ [][Next]_vars

----------------------------------------------------------------------------
(* Claims on the scoresheet *)

\* the rule object at 1-based position index of sheet k
RuleAt(k, index) == sheets[k].rules[index]

DisplayIndexes(k) == 1..Len(sheets[k].rules)

\* req_rules of bonus object b lists rule object r
Lists(b, r) ==
    /\ ~IsNone(bonus_obj[b].req_rules)
    /\ \E i \in DOMAIN Val(bonus_obj[b].req_rules) : Val(bonus_obj[b].req_rules)[i] = r

\* C4: a successful update_score on rule R adds exactly R's resulting
\* rule_score, once, to the counter of every bonus of the sheet whose
\* req_rules lists R, and leaves every other bonus counter (bonuses that do
\* not list R, bonuses without req_rules, the Yahtzee bonus) unchanged.
C4_DependentBonusPropagation ==
    [][(last'.op = "update_score" /\ last'.err = NoError) =>
          LET k == last'.sheet
              R == RuleAt(k, last'.index)
              amt == Val(rule_obj'[R].rule_score)
          IN  \A b \in DOMAIN bonus_obj :
                  bonus_obj'[b].counter =
                      IF b \in Range(sheets[k].bonuses) /\ Lists(b, R)
                      THEN bonus_obj[b].counter + amt
                      ELSE bonus_obj[b].counter]_vars

\* rule2 has just been scored as 4: bonus1 and bonus2 (which lists rule2
\* twice) each got 4 once, bonus3 and the Yahtzee bonus got nothing
C4_Witness ==
    /\ last.op = "update_score" /\ last.err = NoError /\ last.index = 2
    /\ rule_obj[2].rule_score = Some(4)
    /\ rule_obj[1].rule_score = Some(3)
    /\ rule_obj[3].rule_score = None
    /\ bonus_obj[1].counter = 7
    /\ bonus_obj[2].counter = 4
    /\ bonus_obj[3].counter = 0
    /\ bonus_obj[4].counter = 0

\* C5: a failed update_score leaves the whole scoresheet unchanged; when the
\* target rule is already scored the call fails with RuleAlreadyScoredError,
\* every rule_score stays as it was and no bonus counter is incremented.
C5_FailedUpdateChangesNothing ==
    [][last'.op = "update_score" =>
          /\ last'.err # NoError =>
                /\ rule_obj' = rule_obj
                /\ bonus_obj' = bonus_obj
                /\ sheets' = sheets
          /\ (/\ last'.index \in DisplayIndexes(last'.sheet)
              /\ ~IsNone(rule_obj[RuleAt(last'.sheet, last'.index)].rule_score)) =>
                last'.err = "RuleAlreadyScoredError"]_vars

\* a second update_score on rule2, scored as 4, has just been refused and
\* the dependent counters still hold the 4 of the first call
C5_Witness ==
    /\ last.op = "update_score" /\ last.index = 2
    /\ last.err = "RuleAlreadyScoredError"
    /\ rule_obj[2].rule_score = Some(4)
    /\ rule_obj[1].rule_score = None
    /\ bonus_obj[1].counter = 4
    /\ bonus_obj[2].counter = 4

\* C6: update_score(index, dice) that returns scores exactly the rule at
\* 1-based position index of the sheet's rule list, as that rule's points
\* for dice, and leaves the rule_score of every other rule unchanged.
C6_UpdateScoreScoresRuleAtIndex ==
    [][(last'.op = "update_score" /\ last'.err = NoError) =>
          LET k == last'.sheet
              index == last'.index
          IN  /\ index \in DisplayIndexes(k)
              /\ IsNone(rule_obj[RuleAt(k, index)].rule_score)
              /\ \A dice \in SheetDiceLists :
                    UpdateScore(k, index, dice) =>
                        rule_obj'[RuleAt(k, index)].rule_score =
                            Some(_score_dice(rule_obj[RuleAt(k, index)], dice))
              /\ \A o \in DOMAIN rule_obj :
                    o # RuleAt(k, index) =>
                        rule_obj'[o].rule_score = rule_obj[o].rule_score]_vars

\* dice [1, 2] scored at index 1: rule1 holds 3, rule2 and rule3 are
\* still unscored
C6_Witness ==
    /\ last.op = "update_score" /\ last.err = NoError /\ last.index = 1
    /\ rule_obj[1].rule_score = Some(3)
    /\ rule_obj[2].rule_score = None
    /\ rule_obj[3].rule_score = None

LookupErrors == { "KeyError", "IndexError" }

\* C7: update_score with an index that is not a display index of the sheet
\* (0, negative, greater than the number of rules) fails with a lookup
\* error and changes no rule_score and no bonus counter.
C7_UnknownIndexFails ==
    [][(last'.op = "update_score" /\ last'.index \notin DisplayIndexes(last'.sheet)) =>
          /\ last'.err \in LookupErrors
          /\ \A o \in DOMAIN rule_obj : rule_obj'[o].rule_score = rule_obj[o].rule_score
          /\ \A b \in DOMAIN bonus_obj : bonus_obj'[b].counter = bonus_obj[b].counter]_vars

\* index 0 has just been refused on a sheet with rule3 unscored and a
\* scored rule1
C7_Witness ==
    /\ last.op = "update_score" /\ last.index = 0
    /\ last.err = "KeyError"
    /\ rule_obj[1].rule_score = Some(3)
    /\ rule_obj[3].rule_score = None
    /\ bonus_obj[1].counter = 3

ScoreOrZero(o) == IF IsNone(rule_obj[o].rule_score) THEN 0 ELSE Val(rule_obj[o].rule_score)

RECURSIVE SumScores(_)
SumScores(O) ==
    IF O = {} THEN 0
    ELSE LET o == CHOOSE x \in O : TRUE
         IN  ScoreOrZero(o) + SumScores(O \ { o })

\* C10: in every reachable state, section_subtotal(section) is the sum of
\* rule_score over exactly the scoring rules of the sheet tagged with that
\* section, unscored rules counting as 0; bonus rules and rules of the
\* other section do not count.
C10_SectionSubtotal ==
    \A k \in DOMAIN sheets : \A section \in Section :
        _get_section_subtotal_score(rule_obj, sheets[k], section) =
            SumScores({ o \in Range(sheets[k].rules) : rule_obj[o].section = section })

\* upper rules scored 3 and 4, lower rule scored 40, both dependent
\* bonuses scored: the subtotals are 7 and 40
C10_Witness ==
    /\ rule_obj[1].rule_score = Some(3)
    /\ rule_obj[2].rule_score = Some(4)
    /\ rule_obj[3].rule_score = Some(SCORE_LARGE_STRAIGHT)
    /\ bonus_obj[1].rule_score = Some(BONUS_UPPER_SCORE)
    /\ bonus_obj[2].rule_score = Some(BONUS_UPPER_SCORE)
    /\ _get_section_subtotal_score(rule_obj, sheets[1], UPPER) = 7
    /\ _get_section_subtotal_score(rule_obj, sheets[1], LOWER) = SCORE_LARGE_STRAIGHT

SectionPositions(sheet, section) ==
    SelectSeq([i \in DOMAIN sheet.rules |-> i],
              LAMBDA i : rule_obj[sheet.rules[i]].section = section)

RowsOfSection(sheet, section, title) ==
    LET pos == SectionPositions(sheet, section)
    IN  << << title >>, << "Rule", "Name", "Scored" >> >>
            \o [j \in DOMAIN pos |->
                    << pos[j], rule_obj[sheet.rules[pos[j]]].name,
                       rule_obj[sheet.rules[pos[j]]].rule_score >>]

RenderedAsSpecified(sheet) ==
    /\ _generate_scoresheet(rule_obj, sheet)
            = RowsOfSection(sheet, UPPER, "Upper Section")
                \o RowsOfSection(sheet, LOWER, "Lower Section")
    /\ \A i \in DOMAIN sheet.rules :
            /\ _get_name_from_index(sheet, i).err = NoError
            /\ _get_name_from_index(sheet, i).name = rule_obj[sheet.rules[i]].name

\* C23: the rendered rows are the Upper section, then the Lower section;
\* each section is its title row, the header row [Rule, Name, Scored] and one
\* row [display index, name, rule_score] per rule of the section in sheet
\* order, the display index being the rule's 1-based position in the whole
\* rule list, which is the index update_score resolves to that rule.  It
\* holds of the sheet and of a sheet built from the same rules in any order.
C23_RenderedRows ==
    \A k \in DOMAIN sheets :
        /\ RenderedAsSpecified(sheets[k])
        /\ \A order \in Reorderings(sheets[k].rules) :
                RenderedAsSpecified(Scoresheet(rule_obj, order, sheets[k].bonuses,
                                             sheets[k].yahtzee_bonus))

\* a sheet with two upper rules, one of them scored, and a scored lower rule:
\* five rows above the lower title, the lower rule shown with index 3
C23_Witness ==
    /\ rule_obj[1].rule_score = Some(3)
    /\ rule_obj[2].rule_score = None
    /\ rule_obj[3].rule_score = Some(0)
    /\ Len(_generate_scoresheet(rule_obj, sheets[1])) = 7
    /\ _generate_scoresheet(rule_obj, sheets[1])[7] = << 3, "rule3", Some(0) >>

\* the rule objects of sheet k that hold a score
ScoredRules(rheap, k) ==
    { i \in DOMAIN sheets[k].rules : ~IsNone(rheap[sheets[k].rules[i]].rule_score) }

\* C28: on a scoresheet of k rules every rule moves only from unscored to
\* scored and never back; every update_score that succeeds scores exactly
\* one rule that was unscored, so at most k of them succeed; and once all k
\* rules are scored every update_score with a valid index fails with
\* RuleAlreadyScoredError.
C28_RulesAreSingleUse ==
    [][ /\ \A o \in DOMAIN rule_obj :
                ~IsNone(rule_obj[o].rule_score) =>
                    rule_obj'[o].rule_score = rule_obj[o].rule_score
        /\ (last'.op = "update_score" /\ last'.err = NoError) =>
                /\ last'.index \in DisplayIndexes(last'.sheet)
                /\ last'.index \notin ScoredRules(rule_obj, last'.sheet)
                /\ ScoredRules(rule_obj', last'.sheet)
                        = ScoredRules(rule_obj, last'.sheet) \cup { last'.index }
                /\ Cardinality(ScoredRules(rule_obj', last'.sheet))
                        <= Len(sheets[last'.sheet].rules)
        /\ (/\ last'.op = "update_score"
            /\ last'.index \in DisplayIndexes(last'.sheet)
            /\ ScoredRules(rule_obj, last'.sheet) = DOMAIN sheets[last'.sheet].rules) =>
                /\ last'.err = "RuleAlreadyScoredError"
                /\ rule_obj' = rule_obj ]_vars

\* all three rules of the sheet are scored and one more update_score with a
\* valid index has been refused
C28_Witness ==
    /\ ScoredRules(rule_obj, 1) = DOMAIN sheets[1].rules
    /\ Len(sheets[1].rules) = 3
    /\ last.op = "update_score" /\ last.index = 2
    /\ last.err = "RuleAlreadyScoredError"

----------------------------------------------------------------------------
(* SpecGame: a Game of GamePlayers players.  Object 0 of every heap graph
   is the template handed to Game(); player p holds the p-th deep copy. *)

GamePlayers == 2
GameSides == 2

GameThreshold == 2

\* Game(rules=...): the rule objects of the template
GameRuleObjs ==
    << ChanceScoringRule("name1", UPPER),
       YahtzeeScoringRule("name2", LOWER, SCORE_YAHTZEE) >>

\* Game(bonuses=..., yahtzee_bonus=...): the bonus objects of the template
GameBonusObjs ==
    << ThresholdBonusRule("bonus1", UPPER, GameThreshold, BONUS_UPPER_SCORE, 0,
                          Some(<< 1 >>)),
       YahtzeeBonusRule("bonus2", 2, BONUS_YAHTZEE_SCORE, LOWER, 0) >>

\* the sheet built by Game.__init__ from the template objects
GameScoresheet == Scoresheet(GameRuleObjs, << 1 >>, << 1 >>, 2)

\* number of Die objects handed to Game(dice=...)
GameDice == 1

\* the object that object o of a heap of graphs of n objects is a copy of,
\* and the number of the copy
TemplateOf(o, n) == ((o - 1) % n) + 1
CopyOf(o, n) == (o - 1) \div n

InitGame ==
    \E starting_faces \in [1..GameDice -> 1..GameSides] :
        /\ rule_obj = [o \in 1..(Len(GameRuleObjs) * (GamePlayers + 1)) |->
                            GameRuleObjs[TemplateOf(o, Len(GameRuleObjs))]]
        /\ bonus_obj = [o \in 1..(Len(GameBonusObjs) * (GamePlayers + 1)) |->
                            deepcopy_bonus(GameBonusObjs[TemplateOf(o, Len(GameBonusObjs))],
                                           CopyOf(o, Len(GameBonusObjs)),
                                           Len(GameRuleObjs))]
        /\ die_obj = [o \in 1..(GameDice * (GamePlayers + 1)) |->
                            Die(GameSides, starting_faces[TemplateOf(o, GameDice)])]
        /\ sheets = [k \in 1..(GamePlayers + 1) |->
                            deepcopy_sheet(GameScoresheet, k - 1,
                                           Len(GameRuleObjs), Len(GameBonusObjs))]
        /\ players = [p \in 1..GamePlayers |->
                            Player(p + 1, deepcopy_refs([i \in 1..GameDice |-> i],
                                                        p, GameDice))]
        /\ last = Call("Game", NoError)

\* indexes handed to update_score: the display indexes and 0
GameIndexes(p) == 0..Len(sheets[players[p].scoresheet].rules)

NextGame ==
    \/ \E p \in DOMAIN players : \E index \in GameIndexes(p) :
            PlayerUpdateScore(p, index)
    \/ \E p \in DOMAIN players :
            BonusScore(sheets[players[p].scoresheet].yahtzee_bonus)
    \/ \E p \in DOMAIN players :
            \E selected \in SUBSET (1..(Len(players[p].dice) + 1)) :
                \E faces \in [1..Len(players[p].dice) -> 1..GameSides] :
                    GameRerollDice(p, selected, faces)
    \/ \E p \in DOMAIN players :
            \E rule_name \in available_rules(p) : GameScoreRule(p, rule_name)

SpecGame == InitGame /\ [][NextGame]_vars

\* what player p owns: the fields of the rule and bonus objects of the
\* player's sheet and the faces of the player's dice
SheetState(k) ==
    [rules |-> [i \in DOMAIN sheets[k].rules |-> rule_obj[sheets[k].rules[i]]],
     bonuses |-> [i \in DOMAIN sheets[k].bonuses |-> bonus_obj[sheets[k].bonuses[i]]],
     yahtzee_bonus |-> bonus_obj[sheets[k].yahtzee_bonus],
     yahtzee_rule |-> rule_obj[bonus_obj[sheets[k].yahtzee_bonus].yahtzee_rule]]

PlayerState(p) ==
    [scoresheet |-> SheetState(players[p].scoresheet),
     dice |-> [i \in DOMAIN players[p].dice |-> die_obj[players[p].dice[i]]]]

\* the call recorded in l was made on player p's sheet, bonuses or dice
ActsOn(p, l) ==
    \/ l.player = p
    \/ l.sheet = players[p].scoresheet
    \/ /\ l.op = "bonus_score"
       /\ l.oid \in SheetBonuses(players[p].scoresheet)

\* C8: every operation on one player's state (update_score with the bonus
\* counters it increments, a bonus scored, dice rolled) leaves the
\* rule scores, bonus counters and die faces of every other player and
\* the template sheet of the Game as they were.
C8_PlayersNeverAlias ==
    [][ /\ \E p \in DOMAIN players : ActsOn(p, last')
        /\ \A p \in DOMAIN players :
                ActsOn(p, last') =>
                    /\ \A q \in DOMAIN players \ { p } :
                            PlayerState(q)' = PlayerState(q)
                    /\ SheetState(1)' = SheetState(1)
                    /\ \A d \in 1..GameDice : die_obj'[d] = die_obj[d] ]_vars

\* player 1 has scored a rule, incremented a bonus counter, scored a bonus
\* and shows another face than the template, while player 2 and the
\* template are untouched
C8_Witness ==
    /\ Len(players) >= 2
    /\ LET own == PlayerState(1).scoresheet
           other == PlayerState(2).scoresheet
       IN  /\ ~IsNone(own.rules[1].rule_score)
           /\ own.bonuses[1].counter > 0
           /\ ~IsNone(own.yahtzee_bonus.rule_score)
           /\ IsNone(other.rules[1].rule_score)
           /\ other.bonuses[1].counter = 0
           /\ IsNone(other.yahtzee_bonus.rule_score)
           /\ IsNone(SheetState(1).rules[1].rule_score)
           /\ SheetState(1).bonuses[1].counter = 0
           /\ IsNone(SheetState(1).yahtzee_bonus.rule_score)
    /\ PlayerState(1).dice[1].showing_face # PlayerState(2).dice[1].showing_face
    /\ PlayerState(2).dice[1].showing_face = die_obj[1].showing_face

\* C9: Game.score_rule(player), the picker answering the name N of an
\* unscored rule, scores rule N of the player's sheet from the player's
\* dice and leaves the other rules of that sheet as they were.
C9_GameScoreRuleScoresPickedRule ==
    [][ last'.op = "score_rule" =>
            LET p == last'.player
                N == last'.args[1]
                rules == sheets[players[p].scoresheet].rules
            IN  /\ last'.err = NoError
                /\ \A i \in DOMAIN rules :
                        IF rule_obj[rules[i]].name = N
                        THEN /\ rule_obj'[rules[i]] = score(rule_obj[rules[i]], PlayerDice(p))
                             /\ ~IsNone(rule_obj'[rules[i]].rule_score)
                        ELSE rule_obj'[rules[i]] = rule_obj[rules[i]] ]_vars

----------------------------------------------------------------------------
(* SpecDefaults: Game() with the default rules, bonuses and dice, and the   *)
(* one player of the default: update_score on the player's sheet with hands *)
(* of the five default dice, and the score of the Upper Section Bonus       *)

\* defaults.py: DEFAULT_DICE = [Die(sides=6) for _ in range(5)]
DEFAULT_DICE_NUM == 5
DEFAULT_DICE_SIDES == 6

DEFAULT_UPPER_RULES ==
    << MultiplesScoringRule("Aces (Ones)", 1, UPPER),
       MultiplesScoringRule("Twos", 2, UPPER),
       MultiplesScoringRule("Threes", 3, UPPER),
       MultiplesScoringRule("Fours", 4, UPPER),
       MultiplesScoringRule("Fives", 5, UPPER),
       MultiplesScoringRule("Sixes", 6, UPPER) >>

DEFAULT_LOWER_RULES ==
    << NofKindScoringRule("Three of a Kind", 3, LOWER),
       NofKindScoringRule("Four of a Kind", 4, LOWER),
       FullHouseScoringRule("Full House (Two of a Kind and Three of a Kind)",
                            LOWER, 3, 2, SCORE_FULL_HOUSE),
       SmallStraightScoringRule("Small Straight (Four in a Row)", LOWER,
                                SCORE_SMALL_STRAIGHT),
       LargeStraightScoringRule("Large Straight (Five in a Row)", LOWER,
                                SCORE_LARGE_STRAIGHT),
       YahtzeeScoringRule("YAHTZEE (Five of a Kind)", LOWER, SCORE_YAHTZEE),
       ChanceScoringRule("Chance (Any Five Dice)", LOWER) >>

DEFAULT_RULES == DEFAULT_UPPER_RULES \o DEFAULT_LOWER_RULES

\* the references of the list DEFAULT_UPPER_RULES inside DEFAULT_RULES
DEFAULT_UPPER_REFS == [i \in DOMAIN DEFAULT_UPPER_RULES |-> i]

\* the reference of _DEFAULT_YAHTZEE_RULE inside DEFAULT_RULES
DEFAULT_YAHTZEE_REF == Len(DEFAULT_UPPER_RULES) + 6

\* DEFAULT_UPPER_BONUSES followed by DEFAULT_YAHTZEE_BONUS
DEFAULT_BONUSES ==
    << ThresholdBonusRule("Upper Section Bonus", UPPER, BONUS_UPPER_THRESHOLD,
                          BONUS_UPPER_SCORE, 0, Some(DEFAULT_UPPER_REFS)),
       YahtzeeBonusRule("Yahtzee Bonus", DEFAULT_YAHTZEE_REF, BONUS_YAHTZEE_SCORE,
                        LOWER, 0) >>

\* the template sheet of Game(): Scoresheet(rules, bonuses, yahtzee_bonus)
DefaultScoresheet ==
    Scoresheet(DEFAULT_RULES, [i \in DOMAIN DEFAULT_RULES |-> i], << 1 >>, 2)

\* Game(players=1)
DefaultPlayers == 1

\* Die() shows a rolled face: here all dice start on the highest face
InitDefaults ==
    \E starting_faces \in { [i \in 1..DEFAULT_DICE_NUM |-> DEFAULT_DICE_SIDES] } :
        /\ rule_obj = [o \in 1..(Len(DEFAULT_RULES) * (DefaultPlayers + 1)) |->
                            DEFAULT_RULES[TemplateOf(o, Len(DEFAULT_RULES))]]
        /\ bonus_obj = [o \in 1..(Len(DEFAULT_BONUSES) * (DefaultPlayers + 1)) |->
                            deepcopy_bonus(DEFAULT_BONUSES[TemplateOf(o, Len(DEFAULT_BONUSES))],
                                           CopyOf(o, Len(DEFAULT_BONUSES)),
                                           Len(DEFAULT_RULES))]
        /\ die_obj = [o \in 1..(DEFAULT_DICE_NUM * (DefaultPlayers + 1)) |->
                            Die(DEFAULT_DICE_SIDES,
                                starting_faces[TemplateOf(o, DEFAULT_DICE_NUM)])]
        /\ sheets = [k \in 1..(DefaultPlayers + 1) |->
                            deepcopy_sheet(DefaultScoresheet, k - 1,
                                           Len(DEFAULT_RULES), Len(DEFAULT_BONUSES))]
        /\ players = [p \in 1..DefaultPlayers |->
                            Player(p + 1, deepcopy_refs([i \in 1..DEFAULT_DICE_NUM |-> i],
                                                        p, DEFAULT_DICE_NUM))]
        /\ last = Call("Game", NoError)

\* the hands the five dice are driven through: five of a kind of each face
DefaultHands ==
    { [i \in 1..DEFAULT_DICE_NUM |-> Some(f)] : f \in 1..DEFAULT_DICE_SIDES }

\* the indexes update_score is driven with: every upper rule, the Yahtzee
\* of the lower section and an index that is not on the sheet
DefaultIndexes == (0..Len(DEFAULT_UPPER_RULES)) \cup { DEFAULT_YAHTZEE_REF }

NextDefaults ==
    \/ \E p \in DOMAIN players :
            \E index \in DefaultIndexes, dice \in DefaultHands :
                UpdateScore(players[p].scoresheet, index, dice)
    \/ \E p \in DOMAIN players :
            \E o \in Range(sheets[players[p].scoresheet].bonuses) : BonusScore(o)

SpecDefaults == InitDefaults /\ [][NextDefaults]_vars

\* the rule objects of section UPPER of sheet k
UpperRules(k) ==
    { o \in Range(sheets[k].rules) : rule_obj[o].section = UPPER }

\* C11: on every player sheet of a Game with the default rules and
\* bonuses, after any sequence of update_score calls, the counter of the
\* Upper Section Bonus is the subtotal of the upper section; the bonus,
\* when scored, is 35 if the upper section has reached 63 and 0 otherwise.
C11_UpperBonusCounterIsUpperSubtotal ==
    \A p \in DOMAIN players :
        LET k == players[p].scoresheet
            o == sheets[k].bonuses[1]
        IN  /\ bonus_obj[o].name = "Upper Section Bonus"
            /\ bonus_obj[o].counter = SumScores(UpperRules(k))
            /\ BonusScoredNow(o) =>
                    bonus_obj[o].rule_score =
                        Some(IF SumScores(UpperRules(k)) >= 63 THEN 35 ELSE 0)

\* the player's upper section has passed 63 and the bonus was scored as 35
C11_Witness ==
    \E p \in DOMAIN players :
        LET k == players[p].scoresheet
            o == sheets[k].bonuses[1]
        IN  /\ BonusScoredNow(o)
            /\ SumScores(UpperRules(k)) >= 63
            /\ bonus_obj[o].counter >= 63
            /\ bonus_obj[o].rule_score = Some(35)
            /\ ~IsNone(rule_obj[sheets[k].rules[DEFAULT_YAHTZEE_REF]].rule_score)

----------------------------------------------------------------------------
(* SpecDice: dice constructed one after another and rolled *)

\* number of dice constructed
DiceObjs == 2

\* largest number of sides of a die
DieSides == 3

\* starting_face arguments: none given, or an int from below the faces to
\* above them
StartingFaces == { None } \cup { Some(f) : f \in (-1)..(DieSides + 1) }

InitDice ==
    /\ rule_obj = << >>
    /\ bonus_obj = << >>
    /\ die_obj = << >>
    /\ sheets = << >>
    /\ players = << >>
    /\ last = Call("init", NoError)

NextDice ==
    \/ \E sides \in 1..DieSides, starting_face \in StartingFaces, rolled \in 1..DieSides :
            /\ Len(die_obj) < DiceObjs
            /\ NewDie(sides, starting_face, rolled)
    \/ \E o \in DOMAIN die_obj, rolled \in 1..DieSides : DieRoll(o, rolled)

SpecDice == InitDice /\ [][NextDice]_vars

\* C24: constructing a Die with a starting_face that is not one of 1..sides,
\* 0 and negative values included, raises IllegalDieValueError; with a
\* starting_face in 1..sides the die is constructed showing that face.
C24_DieStartingFace ==
    (last.op = "Die" /\ ~IsNone(last.args[2])) =>
        IF Val(last.args[2]) \in 1..last.args[1]
        THEN /\ last.err = NoError
             /\ die_obj[last.oid].showing_face = Val(last.args[2])
        ELSE last.err = "IllegalDieValueError"

====
